---- MODULE Spec2Model ----
(***************************************************************************)
(* Model of the hybrid RLE / bit-packed codec (package rle) and of the     *)
(* trace lookup over a parquet block (package vparquet).                   *)
(*                                                                         *)
(* Bytes are integers 0..255.  A Go slice s[a:b] is Slice(s, a, b); Go     *)
(* indexes are 0-based, TLA+ sequences 1-based.  An int32 value is kept as *)
(* its four little-endian bytes <<b0, b1, b2, b3>>, which is the form      *)
(* EncodeInt32 / DecodeInt32 exchange with their callers.                  *)
(***************************************************************************)
EXTENDS Integers, Sequences, FiniteSets, TLC

VARIABLES
    codec,      \* "bool", "levels" or "int32": which Encode*/Decode* pair runs
    BitWidth,   \* Encoding.BitWidth
    xs,         \* the encoder's input (bytes, or int32 values for "int32")
    srcBuf,     \* backing array of the decoder's input; Len(srcBuf) is cap(src)
    srcLen,     \* len(src) of the decoder's input
    pos,        \* the decoder's loop index i
    end,        \* len of the slice the decoder's loop runs over
    dstBuf,     \* the decoder's output buffer
    cpc,        \* "encode", "decode", "runs", "done"
    cerr,       \* error returned ("nil" for none, "panic" for a panic)
    hdr,        \* the last run header read by the decoder
    runAt,      \* position of the last run header
    validLen,   \* length of dstBuf after the last completely decoded run
    oob,        \* a payload byte at an index >= len(src) has been read
    block,      \* the parquet file: row groups of pages of the TraceID column
    traceID,    \* the id looked up
    fpc,        \* position in FindTraceByID
    bloom,      \* outcome of the block-level bloom check ("" before it)
    opened,     \* parquet.OpenFile has been called
    startRowNum, \* RowTracker.startRowNum
    lo,         \* binarySearch: start
    hi,         \* binarySearch: end
    probes,     \* the calls of RowTracker.findTraceByID made, in order
    rowMatch,   \* result of binarySearch
    ret,        \* what FindTraceByID returned: [trace, err]
    qmain,      \* position of BackendSearch: "entry", "iterating", "returned"
    qobjs,      \* the objects IterateObjects visits: "bad", "miss" or "hit" each
    qlimit,     \* req.Search.Limit
    qpc,        \* position of the callback invocation of each object
    respMtx,    \* respMtx: 0 when free, else the invocation holding it
    metrics,    \* resp.Metrics: [InspectedTraces, InspectedBytes]
    traces,     \* resp.Traces: the objects appended, in order
    searchErr,  \* searchErr: NoErr, the object whose error it is, or TornErr
    qstop,      \* a callback has returned true
    racing,     \* invocations whose write of searchErr overlapped another's
    unlocked,   \* shared variables accessed by a callback not holding respMtx
    qret        \* what BackendSearch returned: [resp, err, of]

cvars == <<codec, BitWidth, xs, srcBuf, srcLen, pos, end, dstBuf, cpc, cerr, hdr, runAt, validLen, oob>>

fvars == <<block, traceID, fpc, bloom, opened, startRowNum, lo, hi, probes, rowMatch, ret>>

qvars == <<qmain, qobjs, qlimit, qpc, respMtx, metrics, traces, searchErr, qstop, racing, unlocked, qret>>

vars == <<cvars, fvars, qvars>>

\* ------------------------------------------------------------------ bounds
MaxGroups == 3
MaxTail == 2
MaxBoolBytes == 3
MaxTokens == 3
MaxCapExtra == 1
MaxRG == 3
MaxPages == 2
MaxVals == 2
MaxSearchRG == 6
MaxRow == 2
MaxObjects == 2
MaxLimit == 2

\* Largest number of values a run of a raw decoder input declares.
MaxRunValues == 2048

\* --------------------------------------------------------------- constants
maxSupportedValueCount == 16 * 1024 * 1024

MaxVarintLen64 == 10

SearchPrevious == 0 - 1

SearchNext == 0 - 2

NotFound == 0 - 3

\* vs := make([]parquet.Value, 1000)
BatchSize == 1000

\* ----------------------------------------------------------------- helpers
At(s, k) == s[k + 1]

Slice(s, a, b) == SubSeq(s, a + 1, b)

Repeat(v, n) == [k \in 1..n |-> v]

RECURSIVE Flatten(_)
Flatten(ss) == IF ss = <<>> THEN <<>> ELSE Head(ss) \o Flatten(Tail(ss))

Pow2(k) == 2 ^ k

\* bitpack.ByteCount: number of bytes needed to hold a number of bits.
ByteCount(bits) == (bits + 7) \div 8

\* Bit k (0 = least significant) of a byte.
BitOfByte(b, k) == (b \div Pow2(k)) % 2

\* Bit k of an int32 held as four little-endian bytes.
BitOfInt32(v, k) == BitOfByte(v[(k \div 8) + 1], k % 8)

\* Bit p of a byte stream, least significant bit of each byte first.
BitOfStream(bytes, p) == BitOfByte(bytes[(p \div 8) + 1], p % 8)

\* The byte whose bit t is b[t], for t in 0..7.
ByteOfBits(b) ==
    b[0] + 2 * b[1] + 4 * b[2] + 8 * b[3] + 16 * b[4] + 32 * b[5] + 64 * b[6] + 128 * b[7]

\* ---------------------------------------------------------------- BitPacker
\* pack: bit i of value j lands at absolute bit position j*w + i.
PackBytes(vals, w) ==
    [m \in 1..((Len(vals) * w) \div 8) |->
        ByteOfBits([t \in 0..7 |->
            LET p == 8 * (m - 1) + t IN BitOfByte(vals[(p \div w) + 1], p % w)])]

PackInt32(vals, w) ==
    [m \in 1..((Len(vals) * w) \div 8) |->
        ByteOfBits([t \in 0..7 |->
            LET p == 8 * (m - 1) + t IN BitOfInt32(vals[(p \div w) + 1], p % w)])]

\* unpack: the inverse; count values of w bits each are read from in.
UnpackBytes(in, count, w) ==
    [j \in 1..count |->
        ByteOfBits([t \in 0..7 |->
            IF t < w THEN BitOfStream(in, (j - 1) * w + t) ELSE 0])]

UnpackInt32(in, count, w) ==
    [j \in 1..count |->
        [q \in 1..4 |->
            ByteOfBits([t \in 0..7 |->
                IF 8 * (q - 1) + t < w
                THEN BitOfStream(in, (j - 1) * w + 8 * (q - 1) + t)
                ELSE 0])]]

\* encodeBytesBitpack (assembly): packs the 8-byte words, returns the bytes.
encodeBytesBitpack(words, bitWidth) == PackBytes(Flatten(words), bitWidth)

\* decodeBytesBitpack (assembly): unpacks count values of bitWidth bits.
decodeBytesBitpack(in, count, bitWidth) == UnpackBytes(in, count, bitWidth)

encodeInt32BitpackDefault(words, bitWidth) == PackInt32(Flatten(words), bitWidth)

\* --------------------------------------------------------------- varints
\* binary.PutUvarint
RECURSIVE PutUvarint(_)
PutUvarint(u) == IF u < 128 THEN <<u>> ELSE <<(u % 128) + 128>> \o PutUvarint(u \div 128)

appendUvarint(dst, u) == dst \o PutUvarint(u)

\* binary.Uvarint(buf[from:lim]).  n is the number of bytes read (0: buffer
\* too small, negative: overflow).  The value is kept exactly while it is
\* below 2^28; big records that a set bit at position 28 or above was read,
\* in which case the value is at least 2^28.
RECURSIVE UvarintFrom(_, _, _, _, _, _)
UvarintFrom(buf, from, lim, k, x, big) ==
    IF from + k >= lim THEN [n |-> 0, x |-> 0, big |-> FALSE]
    ELSE IF k = MaxVarintLen64 THEN [n |-> -(k + 1), x |-> 0, big |-> FALSE]
    ELSE LET b == At(buf, from + k)
             digit == b % 128
             x1 == IF 7 * k < 28 THEN x + digit * Pow2(7 * k) ELSE x
             big1 == big \/ (7 * k >= 28 /\ digit # 0)
         IN  IF b < 128
             THEN IF k = MaxVarintLen64 - 1 /\ b > 1
                  THEN [n |-> -(k + 1), x |-> 0, big |-> FALSE]
                  ELSE [n |-> k + 1, x |-> x1, big |-> big1]
             ELSE UvarintFrom(buf, from, lim, k + 1, x1, big1)

Uvarint(buf, from, lim) == UvarintFrom(buf, from, lim, 0, 0, FALSE)

\* count, bitpacked := uint(u>>1), (u&1) != 0
HeaderCount(h) == h.x \div 2

HeaderBitpacked(h) == (h.x % 2) = 1

\* --------------------------------------------------------------- encoders
isZero(data) == \A k \in 1..Len(data) : data[k] = 0

isOnes(data) == \A k \in 1..Len(data) : data[k] = 255

broadcast8x1(word) == Repeat(word[1], 8)

broadcast8x4(v) == Repeat(v, 8)

appendRunLengthBytes(dst, count, value) == (dst \o PutUvarint(count * 2)) \o <<value>>

appendRunLengthBits(dst, count, value) == appendRunLengthBytes(dst, count, value)

appendBitPackedBits(dst, words) == (dst \o PutUvarint(Len(words) * 2 + 1)) \o words

appendBitPackedBytes(dst, words, bitWidth) ==
    (dst \o PutUvarint(Len(words) * 2 + 1)) \o encodeBytesBitpack(words, bitWidth)

appendRunLengthInt32OneByte(dst, count, value, bitWidth) ==
    (dst \o PutUvarint(count * 2)) \o SubSeq(value, 1, IF bitWidth = 0 THEN 0 ELSE 1)

\* PutUint32 writes the four bytes of the value; the result keeps the first
\* ByteCount(bitWidth) of them.
appendRunLengthInt32(dst, count, value, bitWidth) ==
    (dst \o PutUvarint(count * 2)) \o SubSeq(value, 1, ByteCount(bitWidth))

encodeInt32Bitpack(words, bitWidth) == encodeInt32BitpackDefault(words, bitWidth)

appendBitPackedInt32(dst, words, bitWidth) ==
    (dst \o PutUvarint(Len(words) * 2 + 1)) \o encodeInt32Bitpack(words, bitWidth)

\* First 0-based index j >= from such that s[j] differs from v (Len(s) if none).
RECURSIVE SkipEqual(_, _, _)
SkipEqual(s, from, v) ==
    IF from < Len(s) /\ At(s, from) = v THEN SkipEqual(s, from + 1, v) ELSE from

\* encodeBits: the loop "for j < len(src) && (src[j-1] != src[j] || ...)".
RECURSIVE BitsExtend(_, _)
BitsExtend(src, j) ==
    IF j < Len(src) /\ (At(src, j - 1) # At(src, j) \/ (At(src, j) # 0 /\ At(src, j) = 255))
    THEN BitsExtend(src, j + 1)
    ELSE j

RECURSIVE encodeBitsLoop(_, _, _)
encodeBitsLoop(dst, src, i) ==
    IF i >= Len(src) THEN dst
    ELSE LET b == At(src, i)
             jr == SkipEqual(src, i + 1, b)
         IN  IF (b = 0 \/ b = 255) /\ jr - i > 1
             THEN encodeBitsLoop(appendRunLengthBits(dst, 8 * (jr - i), b), src, jr)
             ELSE LET j0 == IF b = 0 \/ b = 255 THEN jr ELSE i + 1
                      j1 == BitsExtend(src, j0)
                      j == IF (j1 - i) > 1 /\ j1 < Len(src) THEN j1 - 1 ELSE j1
                  IN  encodeBitsLoop(appendBitPackedBits(dst, Slice(src, i, j)), src, j)

encodeBits(dst, src) ==
    IF Len(src) = 0 \/ isZero(src) \/ isOnes(src)
    THEN LET d == appendUvarint(dst, (8 * Len(src)) * 2)
         IN  IF Len(src) > 0 THEN Append(d, src[1]) ELSE d
    ELSE encodeBitsLoop(dst, src, 0)

\* The source bytes seen as words of 8 values (unsafe.Slice over len/8 words).
Words(src) == [k \in 1..(Len(src) \div 8) |-> SubSeq(src, 8 * (k - 1) + 1, 8 * k)]

\* encodeBytes: "for j < len(words) && words[j] != broadcast8x1(words[j-1])".
RECURSIVE BytesExtend(_, _)
BytesExtend(words, j) ==
    IF j < Len(words) /\ At(words, j) # broadcast8x1(At(words, j - 1))
    THEN BytesExtend(words, j + 1)
    ELSE j

\* A constant group is emitted on its own, without looking ahead for the
\* groups that repeat it.
RECURSIVE encodeBytesWordsNoLookAhead(_, _, _, _)
encodeBytesWordsNoLookAhead(dst, words, i, bitWidth) ==
    IF i >= Len(words) THEN dst
    ELSE LET pattern == broadcast8x1(At(words, i))
             j == IF At(words, i) = pattern THEN i + 1 ELSE i
         IN  IF i < j
             THEN encodeBytesWordsNoLookAhead(appendRunLengthBytes(dst, 8 * (j - i), pattern[1]),
                                              words, j, bitWidth)
             ELSE LET j2 == BytesExtend(words, j + 1)
                  IN  encodeBytesWordsNoLookAhead(appendBitPackedBytes(dst, Slice(words, i, j2), bitWidth),
                                                  words, j2, bitWidth)

RECURSIVE encodeBytesWords(_, _, _, _)
encodeBytesWords(dst, words, i, bitWidth) ==
    IF i >= Len(words) THEN dst
    ELSE LET pattern == broadcast8x1(At(words, i))
             j == SkipEqual(words, i, pattern)
         IN  IF i < j
             THEN encodeBytesWords(appendRunLengthBytes(dst, 8 * (j - i), pattern[1]),
                                   words, j, bitWidth)
             ELSE LET j2 == BytesExtend(words, j + 1)
                  IN  encodeBytesWords(appendBitPackedBytes(dst, Slice(words, i, j2), bitWidth),
                                       words, j2, bitWidth)

\* The whole tail is emitted as one run of its first value.
encodeBytesTailOneRun(dst, src, i) ==
    IF i >= Len(src) THEN dst
    ELSE appendRunLengthBytes(dst, Len(src) - i, At(src, i))

RECURSIVE encodeBytesTail(_, _, _)
encodeBytesTail(dst, src, i) ==
    IF i >= Len(src) THEN dst
    ELSE LET j == SkipEqual(src, i + 1, At(src, i))
         IN  encodeBytesTail(appendRunLengthBytes(dst, j - i, At(src, i)), src, j)

\* Result of an encoder or decoder call: the returned buffer and error.
Ret(d, e) == [dst |-> d, err |-> e]

\* An empty input returns before anything is appended.
encodeBytesEmptyEarly(dst, src, bitWidth) ==
    IF bitWidth > 8 THEN Ret(dst, "InvalidBitWidth")
    ELSE IF Len(src) = 0 THEN Ret(dst, "nil")
    ELSE IF bitWidth = 0
    THEN IF ~isZero(src) THEN Ret(dst, "InvalidBitWidth")
         ELSE Ret(appendUvarint(dst, Len(src) * 2), "nil")
    ELSE LET d1 == IF Len(src) >= 8 THEN encodeBytesWords(dst, Words(src), 0, bitWidth) ELSE dst
         IN  Ret(encodeBytesTail(d1, src, (Len(src) \div 8) * 8), "nil")

encodeBytes(dst, src, bitWidth) ==
    IF bitWidth > 8 THEN Ret(dst, "InvalidBitWidth")
    ELSE IF bitWidth = 0
    THEN IF ~isZero(src) THEN Ret(dst, "InvalidBitWidth")
         ELSE Ret(appendUvarint(dst, Len(src) * 2), "nil")
    ELSE LET d1 == IF Len(src) >= 8 THEN encodeBytesWords(dst, Words(src), 0, bitWidth) ELSE dst
         IN  Ret(encodeBytesTail(d1, src, (Len(src) \div 8) * 8), "nil")

\* encodeInt32IndexEqual8Contiguous (assembly): index of the first word whose
\* 8 values are all equal, Len(words) when there is none.
RECURSIVE IndexEqual8From(_, _)
IndexEqual8From(words, k) ==
    IF k < Len(words) /\ At(words, k) # broadcast8x4(At(words, k)[1])
    THEN IndexEqual8From(words, k + 1)
    ELSE k

encodeInt32IndexEqual8Contiguous(words) == IndexEqual8From(words, 0)

RECURSIVE encodeInt32Words(_, _, _, _)
encodeInt32Words(dst, words, i, bitWidth) ==
    IF i >= Len(words) THEN dst
    ELSE LET pattern == broadcast8x4(At(words, i)[1])
             j == SkipEqual(words, i, pattern)
         IN  IF i < j
             THEN encodeInt32Words(appendRunLengthInt32(dst, 8 * (j - i), pattern[1], bitWidth),
                                   words, j, bitWidth)
             ELSE LET j1 == j + 1
                      j2 == j1 + encodeInt32IndexEqual8Contiguous(Slice(words, j1, Len(words)))
                  IN  encodeInt32Words(appendBitPackedInt32(dst, Slice(words, i, j2), bitWidth),
                                       words, j2, bitWidth)

RECURSIVE encodeInt32Tail(_, _, _, _)
encodeInt32Tail(dst, src, i, bitWidth) ==
    IF i >= Len(src) THEN dst
    ELSE LET j == SkipEqual(src, i + 1, At(src, i))
         IN  encodeInt32Tail(appendRunLengthInt32(dst, j - i, At(src, i), bitWidth),
                             src, j, bitWidth)

\* src is the sequence of int32 values (each four little-endian bytes).
encodeInt32(dst, src, bitWidth) ==
    IF bitWidth > 32 THEN Ret(dst, "InvalidBitWidth")
    ELSE IF bitWidth = 0
    THEN IF ~isZero(Flatten(src)) THEN Ret(dst, "InvalidBitWidth")
         ELSE Ret(appendUvarint(dst, Len(src) * 2), "nil")
    ELSE LET d1 == IF Len(src) >= 8 THEN encodeInt32Words(dst, Words(src), 0, bitWidth) ELSE dst
         IN  Ret(encodeInt32Tail(d1, src, (Len(src) \div 8) * 8, bitWidth), "nil")

\* binary.LittleEndian.PutUint32 of a value below 2^16 (larger bodies do not
\* occur within the bounds).
PutUint32(v) == <<v % 256, (v \div 256) % 256, 0, 0>>

EncodeLevels(src, bitWidth) == encodeBytes(<<>>, src, bitWidth)

EncodeBoolean(src) ==
    LET r == encodeBits(<<0, 0, 0, 0>>, src)
    IN  Ret(PutUint32(Len(r) - 4) \o SubSeq(r, 5, Len(r)), "nil")

\* src is the input seen as int32 values; the length check on the byte
\* input (len(src) % 4) holds by construction of that form.
EncodeInt32(src, bitWidth) == encodeInt32(<<>>, src, bitWidth)

\* --------------------------------------------------------------- decoders
\* The outcome of decoding one run (one iteration of a decoder's loop):
\*   st  = "run"  : the run was decoded, i is the position after it and out
\*                  describes the bytes appended to dst;
\*   st  = "err"  : the decoder returned dst unchanged with error err;
\*   st  = "panic": the decoder panicked (slice bounds out of range).
\* oob tells that a byte at an index >= len(src) was read as run payload.
RunErr(e) == [st |-> "err", err |-> e, i |-> 0, out |-> [kind |-> "none", values |-> 0], oob |-> FALSE]

RunPanic == [st |-> "panic", err |-> "panic", i |-> 0, out |-> [kind |-> "none", values |-> 0], oob |-> FALSE]

RunOk(j, o, beyond) == [st |-> "run", err |-> "nil", i |-> j, out |-> o, oob |-> beyond]

\* Bytes a run appends to dst.
OutBytes(o) ==
    CASE o.kind = "fill"        -> [k \in 1..(o.n * Len(o.unit)) |-> o.unit[((k - 1) % Len(o.unit)) + 1]]
      [] o.kind = "copy"        -> o.in
      [] o.kind = "unpackBytes" -> decodeBytesBitpack(o.in, o.values, o.w)
      [] o.kind = "unpackInt32" -> LET u == UnpackInt32(o.in, o.values, o.w)
                                   IN  [k \in 1..(4 * o.values) |-> u[((k - 1) \div 4) + 1][((k - 1) % 4) + 1]]
      [] OTHER                  -> <<>>

\* if count > maxSupportedValueCount
ExceedsCapRLEOnly(h) == ~HeaderBitpacked(h) /\ (h.big \/ HeaderCount(h) > maxSupportedValueCount)

ExceedsCap(h) == h.big \/ HeaderCount(h) > maxSupportedValueCount

decodeBitsRun(src, n, i) ==
    LET h == Uvarint(src, i, n)
    IN  IF h.n = 0 THEN RunErr("TruncatedHeader")
        ELSE IF h.n < 0 THEN RunErr("HeaderOverflow")
        ELSE LET i1 == i + h.n
                 count == HeaderCount(h)
             IN  IF ExceedsCap(h) THEN RunErr("CountTooLarge")
                 ELSE IF HeaderBitpacked(h)
                 THEN LET j == i1 + count
                      IN  IF j > n THEN RunErr("TruncatedBody")
                          ELSE RunOk(j, [kind |-> "copy", in |-> Slice(src, i1, j),
                                         values |-> 8 * count], FALSE)
                 ELSE LET word == IF i1 < n THEN At(src, i1) ELSE 0
                          i2 == IF i1 < n THEN i1 + 1 ELSE i1
                      IN  RunOk(i2, [kind |-> "fill", unit |-> <<word>>,
                                     n |-> ByteCount(count), values |-> count], FALSE)

decodeBytesRun(src, n, i, bitWidth) ==
    LET h == Uvarint(src, i, n)
    IN  IF h.n = 0 THEN RunErr("TruncatedHeader")
        ELSE IF h.n < 0 THEN RunErr("HeaderOverflow")
        ELSE LET i1 == i + h.n
                 count == HeaderCount(h)
             IN  IF ExceedsCap(h) THEN RunErr("CountTooLarge")
                 ELSE IF HeaderBitpacked(h)
                 THEN LET count8 == count * 8
                          j == i1 + ByteCount(count8 * bitWidth)
                      IN  IF j > n THEN RunErr("TruncatedBody")
                          ELSE RunOk(j, [kind |-> "unpackBytes", in |-> Slice(src, i1, j),
                                         w |-> bitWidth, values |-> count8], FALSE)
                 ELSE IF bitWidth # 0 /\ (i1 + 1) > n THEN RunErr("TruncatedBody")
                 ELSE LET word == IF bitWidth # 0 THEN At(src, i1) ELSE 0
                          i2 == IF bitWidth # 0 THEN i1 + 1 ELSE i1
                      IN  RunOk(i2, [kind |-> "fill", unit |-> <<word>>,
                                     n |-> count, values |-> count], FALSE)

\* src is the backing array (its length is cap(src)) and n is len(src): the
\* bit-packed branch slices src[i : i+length] without comparing i+length
\* with len(src), so the slice may extend into the capacity, and the slice
\* expression panics when it extends past it.
decodeInt32Run(src, n, i, bitWidth) ==
    LET h == Uvarint(src, i, n)
    IN  IF h.n = 0 THEN RunErr("TruncatedHeader")
        ELSE IF h.n < 0 THEN RunErr("HeaderOverflow")
        ELSE LET i1 == i + h.n
                 count == HeaderCount(h)
             IN  IF ExceedsCap(h) THEN RunErr("CountTooLarge")
                 ELSE IF HeaderBitpacked(h)
                 THEN LET length == count * bitWidth
                      IN  IF i1 + length > Len(src) THEN RunPanic
                          ELSE RunOk(i1 + length,
                                     [kind |-> "unpackInt32", in |-> Slice(src, i1, i1 + length),
                                      w |-> bitWidth, values |-> 8 * count],
                                     i1 + length > n)
                 ELSE LET j == i1 + ByteCount(bitWidth)
                      IN  IF j > n THEN RunErr("TruncatedBody")
                          ELSE RunOk(j, [kind |-> "fill",
                                         unit |-> Slice(src, i1, j) \o Repeat(0, 4 - (j - i1)),
                                         n |-> count, values |-> count], FALSE)

\* binary.LittleEndian.Uint32 of the first four bytes, compared with a
\* length: the value itself is formed only when its two high bytes are 0.
Uint32Exceeds(src, limit) ==
    src[3] # 0 \/ src[4] # 0 \/ src[1] + 256 * src[2] > limit

Uint32Low(src) == src[1] + 256 * src[2]

\* ------------------------------------------------------------ codec inputs
LevelWidths == 0..8

Int32Widths == 0..32

\* The low w bits of an int32 (four little-endian bytes).
MaskInt32(v, w) ==
    [q \in 1..4 |-> IF w >= 8 * q THEN v[q]
                    ELSE IF w > 8 * (q - 1) THEN v[q] % Pow2(w - 8 * (q - 1))
                    ELSE 0]

\* Three values below 2^w: zero, all ones, and a mixed pattern.
ValA(c, w) == IF c = "int32" THEN <<0, 0, 0, 0>> ELSE 0

ValB(c, w) == IF c = "int32" THEN MaskInt32(<<255, 255, 255, 255>>, w) ELSE Pow2(w) - 1

ValC(c, w) == IF c = "int32" THEN MaskInt32(<<77, 129, 60, 165>>, w) ELSE 77 % Pow2(w)

GroupPalette(c, w) ==
    LET a == ValA(c, w)
        b == ValB(c, w)
        m == ValC(c, w)
    IN  { Repeat(a, 8), Repeat(b, 8), <<a, b, a, b, a, b, a, b>>, <<b, m, a, a, b, m, a, a>> }

SeqsUpTo(S, n) == UNION { [1..k -> S] : k \in 0..n }

EncoderInputs(c, w) ==
    IF c = "bool" THEN SeqsUpTo({0, 255, 85}, MaxBoolBytes)
    ELSE { Flatten(gs) \o t : gs \in SeqsUpTo(GroupPalette(c, w), MaxGroups),
                              t \in SeqsUpTo({ValA(c, w), ValB(c, w)}, MaxTail) }

Widths(c) == IF c = "bool" THEN {1} ELSE IF c = "levels" THEN LevelWidths ELSE Int32Widths

\* Raw decoder inputs: concatenations of header and payload bytes.
Tokens ==
    { <<0>>, <<1>>, <<2>>, <<3>>, <<128>>, <<255>>,
      <<130, 128, 128, 16>>, <<131, 128, 128, 16>>,
      <<128, 128, 128, 128, 128, 128, 128, 128, 128, 2>> }

RawInputs == { Flatten(ts) : ts \in SeqsUpTo(Tokens, MaxTokens) }

\* ------------------------------------------------------------ idle parts
\* The codec and the lookup share no state: while one is exercised the
\* other stays in these values.
NoHeader == [n |-> 0, x |-> 0, big |-> FALSE]

NoTrace == 0 - 1

NoRet == [trace |-> NoTrace, err |-> "nil"]

CodecIdle ==
    /\ codec = "levels" /\ BitWidth = 0 /\ xs = <<>> /\ srcBuf = <<>> /\ srcLen = 0
    /\ pos = 0 /\ end = 0 /\ dstBuf = <<>> /\ cpc = "idle" /\ cerr = "nil"
    /\ hdr = NoHeader /\ runAt = 0 /\ validLen = 0 /\ oob = FALSE

FinderIdle ==
    /\ block = <<>> /\ traceID = 0 /\ fpc = "idle" /\ bloom = "" /\ opened = FALSE
    /\ startRowNum = <<>> /\ lo = 0 /\ hi = 0 /\ probes = <<>> /\ rowMatch = 0
    /\ ret = NoRet

NoErr == 0

TornErr == 0 - 1

\* err is "nil", the name of an error, "UnmarshalErr" (of tells which
\* object's) or "TornErr" (no error any invocation recorded).
NoResp == [resp |-> <<>>, err |-> "nil", of |-> 0]

QuerierIdle ==
    /\ qmain = "idle" /\ qobjs = <<>> /\ qlimit = 0 /\ qpc = <<>> /\ respMtx = 0
    /\ metrics = [InspectedTraces |-> 0, InspectedBytes |-> 0] /\ traces = <<>>
    /\ searchErr = NoErr /\ qstop = FALSE /\ racing = {} /\ unlocked = {}
    /\ qret = NoResp

\* ------------------------------------------------------------ codec actions
CodecFresh ==
    /\ pos = 0 /\ end = 0 /\ dstBuf = <<>> /\ cerr = "nil"
    /\ hdr = NoHeader /\ runAt = 0 /\ validLen = 0 /\ oob = FALSE

\* An encoder input is drawn; Encode* then Decode* run on it.
InitEncode ==
    /\ codec \in {"bool", "levels", "int32"}
    /\ BitWidth \in Widths(codec)
    /\ xs \in EncoderInputs(codec, BitWidth)
    /\ srcBuf = <<>> /\ srcLen = 0
    /\ cpc = "encode"
    /\ CodecFresh
    /\ FinderIdle
    /\ QuerierIdle

\* Entry of DecodeBoolean / DecodeLevels / DecodeInt32 up to the first
\* evaluation of the loop condition of decodeBits / decodeBytes / decodeInt32.
DecodeEntry(c, s, n, w) ==
    IF c = "bool"
    THEN IF n = 4 THEN [done |-> TRUE, err |-> "nil", i |-> 0, lim |-> 0]
         ELSE IF n < 4 THEN [done |-> TRUE, err |-> "TruncatedPrefix", i |-> 0, lim |-> 0]
         ELSE IF Uint32Exceeds(s, n - 4)
              THEN [done |-> TRUE, err |-> "TruncatedBody", i |-> 0, lim |-> 0]
              ELSE [done |-> Uint32Low(s) = 0, err |-> "nil", i |-> 4, lim |-> 4 + Uint32Low(s)]
    ELSE IF w > (IF c = "levels" THEN 8 ELSE 32)
         THEN [done |-> TRUE, err |-> "InvalidBitWidth", i |-> 0, lim |-> 0]
         ELSE [done |-> n = 0, err |-> "nil", i |-> 0, lim |-> n]

RunCall(c, s, n, i, w) ==
    CASE c = "bool"   -> decodeBitsRun(s, n, i)
      [] c = "levels" -> decodeBytesRun(s, n, i, w)
      [] OTHER        -> decodeInt32Run(s, n, i, w)

\* The inputs drawn are those whose runs, as the decoder reads them one
\* after the other, declare at most MaxRunValues values each.
RECURSIVE RunsWithinFrom(_, _, _, _, _)
RunsWithinFrom(c, s, lim, i, w) ==
    LET r == RunCall(c, s, lim, i, w)
    IN  IF r.st # "run" THEN TRUE
        ELSE IF r.out.values > MaxRunValues THEN FALSE
        ELSE IF r.i >= lim THEN TRUE
        ELSE RunsWithinFrom(c, s, lim, r.i, w)

RunsWithin(c, s, n, w) ==
    LET e == DecodeEntry(c, s, n, w)
    IN  IF e.done THEN TRUE ELSE RunsWithinFrom(c, s, e.lim, e.i, w)

\* A raw input behind the length prefix of a boolean page.
FramedInputs == { PutUint32(Len(b)) \o b : b \in RawInputs }

DecoderInputs(c) == IF c = "bool" THEN RawInputs \cup FramedInputs ELSE RawInputs

\* Arbitrary bytes are handed to Decode*: src[:srcLen] of a backing array.
InitDecode ==
    /\ codec \in {"bool", "levels", "int32"}
    /\ BitWidth \in Widths(codec)
    /\ xs = <<>>
    /\ srcBuf \in DecoderInputs(codec)
    /\ \E extra \in 0..MaxCapExtra : extra <= Len(srcBuf) /\ srcLen = Len(srcBuf) - extra
    /\ RunsWithin(codec, srcBuf, srcLen, BitWidth) = TRUE
    /\ cpc = "decode"
    /\ CodecFresh
    /\ FinderIdle
    /\ QuerierIdle

EncodeCall(c, in, w) ==
    CASE c = "bool"   -> EncodeBoolean(in)
      [] c = "levels" -> EncodeLevels(in, w)
      [] OTHER        -> EncodeInt32(in, w)

\* EncodeBoolean / EncodeLevels / EncodeInt32
Encode ==
    /\ cpc = "encode"
    /\ LET r == EncodeCall(codec, xs, BitWidth)
       IN  /\ srcBuf' = r.dst
           /\ srcLen' = Len(r.dst)
           /\ cerr' = r.err
           /\ cpc' = IF r.err = "nil" THEN "decode" ELSE "done"
    /\ UNCHANGED <<codec, BitWidth, xs, pos, end, dstBuf, hdr, runAt, validLen, oob>>
    /\ UNCHANGED <<fvars, qvars>>

DecodeStart ==
    /\ cpc = "decode"
    /\ LET e == DecodeEntry(codec, srcBuf, srcLen, BitWidth)
       IN  /\ pos' = e.i
           /\ end' = e.lim
           /\ cerr' = e.err
           /\ cpc' = IF e.done THEN "done" ELSE "runs"
    /\ UNCHANGED <<codec, BitWidth, xs, srcBuf, srcLen, dstBuf, hdr, runAt, validLen, oob>>
    /\ UNCHANGED <<fvars, qvars>>

\* One iteration of the loop of decodeBits / decodeBytes / decodeInt32.
DecodeRun ==
    /\ cpc = "runs"
    /\ LET r == RunCall(codec, srcBuf, end, pos, BitWidth)
       IN  /\ dstBuf' = dstBuf \o OutBytes(r.out)
           /\ pos' = IF r.st = "run" THEN r.i ELSE pos
           /\ cerr' = r.err
           /\ cpc' = IF r.st = "run" /\ r.i < end THEN "runs" ELSE "done"
           /\ validLen' = IF r.st = "run" THEN Len(dstBuf') ELSE validLen
           /\ oob' = (oob \/ r.oob)
    /\ hdr' = Uvarint(srcBuf, pos, end)
    /\ runAt' = pos
    /\ UNCHANGED <<codec, BitWidth, xs, srcBuf, srcLen, end>>
    /\ UNCHANGED <<fvars, qvars>>

NextRoundTrip == Encode \/ DecodeStart \/ DecodeRun

SpecRoundTrip == InitEncode /\ [][NextRoundTrip]_vars

NextDecode == DecodeStart \/ DecodeRun

SpecDecode == InitDecode /\ [][NextDecode]_vars

\* A boolean input is drawn; the page EncodeBoolean produces for it is cut
\* short before it is handed to DecodeBoolean.
InitEncodeBoolean == InitEncode /\ codec = "bool"

\* The caller passes page[:k] to DecodeBoolean: a proper prefix of the page
\* over the same backing array.
Truncate ==
    /\ cpc = "decode"
    /\ srcLen = Len(srcBuf)
    /\ \E k \in 0..(Len(srcBuf) - 1) : srcLen' = k
    /\ UNCHANGED <<codec, BitWidth, xs, srcBuf, pos, end, dstBuf, cpc, cerr, hdr, runAt, validLen, oob>>
    /\ UNCHANGED <<fvars, qvars>>

NextTruncate == Encode \/ Truncate \/ DecodeStart \/ DecodeRun

SpecTruncate == InitEncodeBoolean /\ [][NextTruncate]_vars

\* ------------------------------------------------------------------ blocks
\* A block is a sequence of row groups; a row group is the sequence of the
\* pages of its TraceID column chunk; a page is [ok, vals]: whether
\* pg.Bounds() reports bounds, and the trace ids of its rows, in order.
\* Trace ids are positive integers: a 16-byte id rendered as 32 lowercase
\* hex characters compares, as a string, the way the number does.
Compare(a, b) == IF a < b THEN 0 - 1 ELSE IF a > b THEN 1 ELSE 0

\* Smallest and largest of vs[a..b], by halving the range.
RECURSIVE RangeMin(_, _, _)
RangeMin(vs, a, b) ==
    IF a = b THEN vs[a]
    ELSE LET m == (a + b) \div 2
             l == RangeMin(vs, a, m)
             r == RangeMin(vs, m + 1, b)
         IN  IF l <= r THEN l ELSE r

RECURSIVE RangeMax(_, _, _)
RangeMax(vs, a, b) ==
    IF a = b THEN vs[a]
    ELSE LET m == (a + b) \div 2
             l == RangeMax(vs, a, m)
             r == RangeMax(vs, m + 1, b)
         IN  IF l >= r THEN l ELSE r

SeqMin(vs) == RangeMin(vs, 1, Len(vs))

SeqMax(vs) == RangeMax(vs, 1, Len(vs))

\* pg.NumRows()
NumRows(pg) == Len(pg.vals)

\* RowGroup.NumRows()
RowGroupRows(rg) == Len(Flatten([k \in 1..Len(rg) |-> rg[k].vals]))

\* ColumnIndex().MinValue(k) / MaxValue(k), k 0-based
MinValue(rg, k) == SeqMin(At(rg, k).vals)

MaxValue(rg, k) == SeqMax(At(rg, k).vals)

\* All trace ids of the block, by global row number (0-based row r is
\* BlockRows(blk)[r + 1]).
BlockRows(blk) == Flatten([i \in 1..Len(blk) |-> Flatten([k \in 1..Len(blk[i]) |-> blk[i][k].vals])])

RowGroupKeys(rg) == UNION { { rg[k].vals[v] : v \in 1..Len(rg[k].vals) } : k \in 1..Len(rg) }

BlockKeys(blk) == UNION { RowGroupKeys(blk[i]) : i \in 1..Len(blk) }

\* The loop of FindTraceByID that fills rt.startRowNum.
RECURSIVE StartRows(_, _, _)
StartRows(blk, rgi, rowCount) ==
    IF rgi >= Len(blk) THEN <<>>
    ELSE <<rowCount>> \o StartRows(blk, rgi + 1, rowCount + RowGroupRows(At(blk, rgi)))

\* ------------------------------------------------------------------ probe
\* The environment's answers during one probe:
\*   bf   : the chunk's bloom filter: "none" (no filter), "pos", "neg",
\*          or "err" (Check returned an error, hence exists = false);
\*   perr : 0-based index of the page at which ReadPage fails (-1: never);
\*   verr : number of values after which ReadValues fails in the scanned
\*          page (-1: never).
\* A probe yields res (a row number or a negative sentinel), failed (an
\* error was met and dropped) and read (0-based indexes of the pages whose
\* values were read).
ProbeRes(r, f, rd) == [res |-> r, failed |-> f, read |-> rd]

\* vr.ReadValues(vs) at offset off of the page's values: up to BatchSize
\* values and nil, io.EOF with the last values of the page, or an error in
\* place of the value at index verr.
ReadValues(vals, off, verr) ==
    LET remaining == Len(vals) - off
        full == IF remaining < BatchSize THEN remaining ELSE BatchSize
    IN  IF verr >= off /\ verr < off + full
        THEN [x |-> verr - off, err |-> "err"]
        ELSE [x |-> full, err |-> IF off + full = Len(vals) THEN "EOF" ELSE "nil"]

\* "for y := 0; y < x; y++": the first index from y on, below x, of a value
\* of the batch equal to id, -1 if none.
BatchMatch(vals, off, x, y, id) ==
    IF \E z \in y..(x - 1) : Compare(At(vals, off + z), id) = 0
    THEN CHOOSE z \in y..(x - 1) :
            /\ Compare(At(vals, off + z), id) = 0
            /\ \A u \in y..(z - 1) : Compare(At(vals, off + u), id) # 0
    ELSE 0 - 1

\* The inner loop without "rowMatch += int64(x)" after a batch.
RECURSIVE ScanValuesNoAdvance(_, _, _, _, _)
ScanValuesNoAdvance(vals, off, rowM, id, verr) ==
    LET rv == ReadValues(vals, off, verr)
        y == BatchMatch(vals, off, rv.x, 0, id)
    IN  IF y >= 0 THEN [hit |-> TRUE, row |-> rowM + y, failed |-> FALSE]
        ELSE IF rv.err = "EOF" THEN [hit |-> FALSE, row |-> rowM, failed |-> FALSE]
        ELSE IF rv.err # "nil" THEN [hit |-> FALSE, row |-> rowM, failed |-> TRUE]
        ELSE ScanValuesNoAdvance(vals, off + rv.x, rowM, id, verr)

\* The inner loop over batches of values of one page: [hit, row, failed].
RECURSIVE ScanValues(_, _, _, _, _)
ScanValues(vals, off, rowM, id, verr) ==
    LET rv == ReadValues(vals, off, verr)
        y == BatchMatch(vals, off, rv.x, 0, id)
    IN  IF y >= 0 THEN [hit |-> TRUE, row |-> rowM + y, failed |-> FALSE]
        ELSE IF rv.err = "EOF" THEN [hit |-> FALSE, row |-> rowM, failed |-> FALSE]
        ELSE IF rv.err # "nil" THEN [hit |-> FALSE, row |-> rowM, failed |-> TRUE]
        ELSE ScanValues(vals, off + rv.x, rowM + rv.x, id, verr)

\* The loop over pages without the early return on a page whose minimum is
\* above the id.
RECURSIVE ScanPagesNoMinCheck(_, _, _, _, _)
ScanPagesNoMinCheck(rg, k, rowM, id, env) ==
    IF k >= Len(rg) THEN ProbeRes(NotFound, FALSE, {})
    ELSE IF env.perr = k THEN ProbeRes(NotFound, TRUE, {})
    ELSE LET pg == At(rg, k)
         IN  IF pg.ok /\ Compare(SeqMax(pg.vals), id) < 0
             THEN ScanPagesNoMinCheck(rg, k + 1, rowM + NumRows(pg), id, env)
             ELSE LET sc == ScanValues(pg.vals, 0, rowM, id, env.verr)
                  IN  IF sc.hit THEN ProbeRes(sc.row, FALSE, {k})
                      ELSE ProbeRes(NotFound, sc.failed, {k})

\* The loop over pages of findTraceByID, at page k with running row rowM.
RECURSIVE ScanPages(_, _, _, _, _)
ScanPages(rg, k, rowM, id, env) ==
    IF k >= Len(rg) THEN ProbeRes(NotFound, FALSE, {})
    ELSE IF env.perr = k THEN ProbeRes(NotFound, TRUE, {})
    ELSE LET pg == At(rg, k)
         IN  IF pg.ok /\ Compare(id, SeqMin(pg.vals)) < 0 THEN ProbeRes(SearchPrevious, FALSE, {})
             ELSE IF pg.ok /\ Compare(SeqMax(pg.vals), id) < 0
             THEN ScanPages(rg, k + 1, rowM + NumRows(pg), id, env)
             ELSE LET sc == ScanValues(pg.vals, 0, rowM, id, env.verr)
                  IN  IF sc.hit THEN ProbeRes(sc.row, FALSE, {k})
                      ELSE ProbeRes(NotFound, sc.failed, {k})

\* RowTracker.findTraceByID(idx, traceID)
findTraceByID(blk, srn, idx, id, env) ==
    LET rgIdx == At(blk, idx)
        numPages == Len(rgIdx)
    IN  IF env.bf = "neg" \/ env.bf = "err" THEN ProbeRes(NotFound, env.bf = "err", {})
        ELSE IF Compare(id, MinValue(rgIdx, 0)) < 0 THEN ProbeRes(SearchPrevious, FALSE, {})
        ELSE IF Compare(MaxValue(rgIdx, numPages - 1), id) < 0 THEN ProbeRes(SearchNext, FALSE, {})
        ELSE ScanPages(rgIdx, 0, At(srn, idx), id, env)

\* The answers the environment can give while row group idx is probed: a
\* bloom filter never answers "neg" for an id the chunk holds.
ProbeEnvs(blk, idx, id) ==
    { e \in [bf : {"none", "pos", "neg", "err"}, perr : (0 - 1)..(MaxPages - 1),
             verr : (0 - 1)..(MaxVals - 1)] :
        e.bf = "neg" => id \notin RowGroupKeys(At(blk, idx)) }

\* ----------------------------------------------------------- lookup inputs
\* Row group of p pages of v rows each; its first row is global row
\* firstRow; row r of the block holds trace id 2 * (r + 1), so that odd ids
\* are absent; page number nb (1-based, 0 for none) reports no bounds.
MkRowGroup(p, v, firstRow, nb) ==
    [k \in 1..p |->
        [ok |-> k # nb,
         vals |-> [t \in 1..v |-> 2 * (firstRow + (k - 1) * v + t)]]]

RECURSIVE MkBlockFrom(_, _, _, _)
MkBlockFrom(shape, i, firstRow, nb) ==
    IF i > Len(shape) THEN <<>>
    ELSE <<MkRowGroup(shape[i].p, shape[i].v, firstRow, nb)>>
         \o MkBlockFrom(shape, i + 1, firstRow + shape[i].p * shape[i].v, nb)

MkBlock(shape, nb) == MkBlockFrom(shape, 1, 0, nb)

SmallBlocks ==
    { MkBlock(shape, nb) : shape \in SeqsUpTo([p : 1..MaxPages, v : 1..MaxVals], MaxRG),
                           nb \in 0..MaxPages }

\* The block of the scenario: 100 row groups sorted by trace id.
BigBlock == MkBlock([i \in 1..100 |-> [p |-> 1, v |-> 1]], 0)

\* A block of one row group of one page holding more values than one call
\* of ReadValues returns.
LongBlock == MkBlock(<<[p |-> 1, v |-> BatchSize + 2]>>, 0)

\* Row group of p pages of v rows each in a block where every trace id
\* occupies two consecutive rows: row r holds trace id 2 * (r / 2 + 1).
MkDupRowGroup(p, v, firstRow) ==
    [k \in 1..p |->
        [ok |-> TRUE,
         vals |-> [t \in 1..v |-> 2 * (((firstRow + (k - 1) * v + t - 1) \div 2) + 1)]]]

RECURSIVE MkDupBlockFrom(_, _, _)
MkDupBlockFrom(shape, i, firstRow) ==
    IF i > Len(shape) THEN <<>>
    ELSE <<MkDupRowGroup(shape[i].p, shape[i].v, firstRow)>>
         \o MkDupBlockFrom(shape, i + 1, firstRow + shape[i].p * shape[i].v)

\* Sorted blocks with ties: within a page, across pages and across row
\* groups, depending on the shape.
DupBlocks ==
    { MkDupBlockFrom(shape, 1, 0) : shape \in SeqsUpTo([p : 1..MaxPages, v : 1..MaxVals], MaxRG) \ {<<>>} }

\* Ids looked up: every id from below the minimum to above the maximum of a
\* small block; the two ends, their neighbours and an id of row group 36
\* for the big one; the ids around the end of the first batch of values for
\* the long one.
LookupIDs(blk) ==
    LET rows == Len(BlockRows(blk))
    IN  IF rows > BatchSize
        THEN {1, 2, 2 * BatchSize, 2 * BatchSize + 1, 2 * (BatchSize + 1), 2 * rows, 2 * rows + 1}
        ELSE IF Len(blk) > MaxRG + 1 THEN {1, 2, 74, 2 * rows, 2 * rows + 1}
        ELSE 1..(2 * rows + 1)

AllBounded(blk) == \A i \in 1..Len(blk) : \A k \in 1..Len(blk[i]) : blk[i][k].ok

\* ---------------------------------------------------------- lookup actions
InitFind ==
    /\ block \in SmallBlocks \cup DupBlocks \cup {BigBlock, LongBlock}
    /\ traceID \in LookupIDs(block)
    /\ fpc = "Screening"
    /\ bloom = "" /\ opened = FALSE /\ startRowNum = <<>>
    /\ lo = 0 /\ hi = 0 /\ probes = <<>> /\ rowMatch = 0
    /\ ret = NoRet
    /\ CodecIdle
    /\ QuerierIdle

\* backendBlock.checkBloom: (found, err) for the store's and parser's answer.
checkBloomNoErr(b) ==
    [found |-> b = "pos", err |-> "nil"]

checkBloom(b) ==
    IF b = "fetchErr" THEN [found |-> FALSE, err |-> "BloomUnavailable"]
    ELSE IF b = "parseErr" THEN [found |-> FALSE, err |-> "BloomCorrupt"]
    ELSE [found |-> b = "pos", err |-> "nil"]

\* What FindTraceByID does with the outcome of checkBloom.
ScreenOutcomeNoMiss(cb) ==
    IF cb.err # "nil" THEN [pc |-> "Failed", ret |-> [trace |-> NoTrace, err |-> cb.err]]
    ELSE [pc |-> "Indexing", ret |-> NoRet]

ScreenOutcome(cb) ==
    IF cb.err # "nil" THEN [pc |-> "Failed", ret |-> [trace |-> NoTrace, err |-> cb.err]]
    ELSE IF ~cb.found THEN [pc |-> "NotFound", ret |-> [trace |-> NoTrace, err |-> "nil"]]
    ELSE [pc |-> "Indexing", ret |-> NoRet]

\* FindTraceByID: the bloom screen.  The block-level filter has no false
\* negatives: it does not answer "neg" for an id of the block.
Screen ==
    /\ fpc = "Screening"
    /\ \E b \in {"fetchErr", "parseErr", "neg", "pos"} :
          /\ b = "neg" => traceID \notin BlockKeys(block)
          /\ bloom' = b
          /\ LET o == ScreenOutcome(checkBloom(b))
             IN  fpc' = o.pc /\ ret' = o.ret
    /\ UNCHANGED <<block, traceID, opened, startRowNum, lo, hi, probes, rowMatch>>
    /\ UNCHANGED <<cvars, qvars>>

\* FindTraceByID: parquet.OpenFile and the construction of the RowTracker.
OpenFile ==
    /\ fpc = "Indexing"
    /\ opened' = TRUE
    /\ \E ok \in BOOLEAN :
          IF ok
          THEN /\ startRowNum' = StartRows(block, 0, 0)
               /\ lo' = 0
               /\ hi' = Len(block) - 1
               /\ fpc' = "Searching"
               /\ ret' = ret
          ELSE /\ fpc' = "Failed"
               /\ ret' = [trace |-> NoTrace, err |-> "ColumnarOpenFailed"]
               /\ UNCHANGED <<startRowNum, lo, hi>>
    /\ UNCHANGED <<block, traceID, bloom, probes, rowMatch>>
    /\ UNCHANGED <<cvars, qvars>>

\* Every negative result sends the search to the left half.
SearchBranchAlwaysLeft(start, endIdx, midResult) ==
    LET mid == (start + endIdx) \div 2
    IN  IF midResult < 0
        THEN [done |-> FALSE, start |-> start, endIdx |-> mid - 1, res |-> 0]
        ELSE [done |-> TRUE, start |-> start, endIdx |-> endIdx, res |-> midResult]

\* A non-negative result makes the search return the index of the row group
\* probed instead of the result.
SearchBranchReturnsMid(start, endIdx, midResult) ==
    LET mid == (start + endIdx) \div 2
    IN  IF midResult = SearchPrevious
        THEN [done |-> FALSE, start |-> start, endIdx |-> mid - 1, res |-> 0]
        ELSE IF midResult < 0
        THEN [done |-> FALSE, start |-> mid + 1, endIdx |-> endIdx, res |-> 0]
        ELSE [done |-> TRUE, start |-> start, endIdx |-> endIdx, res |-> mid]

\* binarySearch: what one call does with the result of its probe; next is
\* the range of the recursive call, done that the call returns res.
SearchBranch(start, endIdx, midResult) ==
    LET mid == (start + endIdx) \div 2
    IN  IF midResult = SearchPrevious
        THEN [done |-> FALSE, start |-> start, endIdx |-> mid - 1, res |-> 0]
        ELSE IF midResult < 0
        THEN [done |-> FALSE, start |-> mid + 1, endIdx |-> endIdx, res |-> 0]
        ELSE [done |-> TRUE, start |-> start, endIdx |-> endIdx, res |-> midResult]

\* One call of RowTracker.binarySearch(lo, hi, traceID): either the range is
\* empty and the search returns -1, so that FindTraceByID returns (nil,
\* nil), or the middle row group is probed.
SearchStep ==
    /\ fpc = "Searching"
    /\ IF lo > hi
       THEN /\ rowMatch' = 0 - 1
            /\ fpc' = "NotFound"
            /\ ret' = [trace |-> NoTrace, err |-> "nil"]
            /\ UNCHANGED <<lo, hi, probes>>
       ELSE LET mid == (lo + hi) \div 2
            IN  \E env \in ProbeEnvs(block, mid, traceID) :
                  LET pr == findTraceByID(block, startRowNum, mid, traceID, env)
                      br == SearchBranch(lo, hi, pr.res)
                  IN  /\ probes' = Append(probes, [rg |-> mid, res |-> pr.res,
                                                   failed |-> pr.failed, read |-> pr.read])
                      /\ lo' = br.start
                      /\ hi' = br.endIdx
                      /\ rowMatch' = IF br.done THEN br.res ELSE rowMatch
                      /\ fpc' = IF br.done THEN "Materializing" ELSE "Searching"
                      /\ ret' = ret
    /\ UNCHANGED <<block, traceID, bloom, opened, startRowNum>>
    /\ UNCHANGED <<cvars, qvars>>

\* FindTraceByID: SeekToRow(rowMatch), ReadRow, Reconstruct and conversion.
\* The result of SeekToRow is discarded: when the seek fails the reader, just
\* created, still stands at row 0 and ReadRow reads that row. An error of
\* ReadRow or of Reconstruct is returned wrapped, with no trace; the pair
\* parquetTraceToTempopbTrace returns is passed on as it is, on an error
\* with or without a trace value. The trace returned is identified by the
\* trace id of the row read.
Materialize ==
    /\ fpc = "Materializing"
    /\ \E seek \in {"ok", "failed"}, m \in {"ok", "readErr", "schemaErr", "convertErr"} :
          LET tr == At(BlockRows(block), IF seek = "ok" THEN rowMatch ELSE 0)
          IN  CASE m = "ok" ->
                     /\ fpc' = "Done"
                     /\ ret' = [trace |-> tr, err |-> "nil"]
                [] m = "convertErr" ->
                     /\ fpc' = "Failed"
                     /\ \E t \in {NoTrace, tr} : ret' = [trace |-> t, err |-> "ConvertFailed"]
                [] OTHER ->
                     /\ fpc' = "Failed"
                     /\ ret' = [trace |-> NoTrace,
                                err |-> IF m = "readErr" THEN "RowReadFailed" ELSE "SchemaMismatch"]
    /\ UNCHANGED <<block, traceID, bloom, opened, startRowNum, lo, hi, probes, rowMatch>>
    /\ UNCHANGED <<cvars, qvars>>

NextFind == Screen \/ OpenFile \/ SearchStep \/ Materialize

SpecFind == InitFind /\ [][NextFind]_vars

\* ------------------------------------------- binarySearch on free outcomes
\* binarySearch(0, N - 1, id) with the probe left open: the content of the N
\* row groups is left out and each call of rt.findTraceByID returns any of
\* the sentinels or any row number.
ProbeOutcomes == {SearchPrevious, SearchNext, NotFound} \cup 0..MaxRow

InitSearch ==
    /\ block \in { [i \in 1..n |-> <<>>] : n \in 0..MaxSearchRG }
    /\ traceID = 1
    /\ fpc = "Searching"
    /\ bloom = "pos" /\ opened = TRUE
    /\ startRowNum = StartRows(block, 0, 0)
    /\ lo = 0 /\ hi = Len(block) - 1
    /\ probes = <<>> /\ rowMatch = 0
    /\ ret = NoRet
    /\ CodecIdle
    /\ QuerierIdle

\* One call of RowTracker.binarySearch(lo, hi, traceID), its probe
\* returning any outcome.
SearchAny ==
    /\ fpc = "Searching"
    /\ IF lo > hi
       THEN /\ rowMatch' = 0 - 1
            /\ fpc' = "NotFound"
            /\ ret' = [trace |-> NoTrace, err |-> "nil"]
            /\ UNCHANGED <<lo, hi, probes>>
       ELSE LET mid == (lo + hi) \div 2
            IN  \E midResult \in ProbeOutcomes :
                  LET br == SearchBranch(lo, hi, midResult)
                  IN  /\ probes' = Append(probes, [rg |-> mid, res |-> midResult,
                                                   failed |-> FALSE, read |-> {}])
                      /\ lo' = br.start
                      /\ hi' = br.endIdx
                      /\ rowMatch' = IF br.done THEN br.res ELSE rowMatch
                      /\ fpc' = IF br.done THEN "Materializing" ELSE "Searching"
                      /\ ret' = ret
    /\ UNCHANGED <<block, traceID, bloom, opened, startRowNum>>
    /\ UNCHANGED <<cvars, qvars>>

NextSearch == SearchAny

\* The calls are sequential code: a call that can be made is made.
SpecSearch == InitSearch /\ [][NextSearch]_vars /\ WF_vars(NextSearch)

\* ------------------------------------------------------------ BackendSearch
\* Querier.BackendSearch.  Object o (1-based, in iteration order) is "bad"
\* when model.Unmarshal fails on it, "miss" when the trace does not satisfy
\* the request, "hit" when it does; the size of object o is o bytes.  The
\* callback invocations of different objects run concurrently: IterateObjects
\* starts them in order and stops starting them once one has returned true.
ObjectKinds == {"bad", "miss", "hit"}

Objects == 1..Len(qobjs)

\* Invocations that have written the first word of searchErr and not yet
\* the second.
Writing == { p \in Objects : qpc[p] = "SetErr2" }

InitQuerier ==
    /\ qmain = "entry"
    /\ qobjs \in SeqsUpTo(ObjectKinds, MaxObjects)
    /\ qlimit \in 1..MaxLimit
    /\ qpc = [o \in 1..Len(qobjs) |-> "idle"]
    /\ respMtx = 0
    /\ metrics = [InspectedTraces |-> 0, InspectedBytes |-> 0]
    /\ traces = <<>>
    /\ searchErr = NoErr
    /\ qstop = FALSE /\ racing = {} /\ unlocked = {}
    /\ qret = NoResp
    /\ CodecIdle
    /\ FinderIdle

\* user.ExtractOrgID and uuid.FromBytes, then the declarations.
StartSearch ==
    /\ qmain = "entry"
    /\ \E e \in {"nil", "OrgIDErr", "BlockIDErr"} :
          IF e = "nil"
          THEN qmain' = "iterating" /\ qret' = qret
          ELSE qmain' = "returned" /\ qret' = [resp |-> <<>>, err |-> e, of |-> 0]
    /\ UNCHANGED <<qobjs, qlimit, qpc, respMtx, metrics, traces, searchErr, qstop, racing, unlocked>>
    /\ UNCHANGED <<cvars, fvars>>

\* IterateObjects calls the callback for the next object.
Dispatch ==
    \E o \in Objects :
        /\ qmain = "iterating" /\ ~qstop
        /\ qpc[o] = "idle"
        /\ \A p \in 1..(o - 1) : qpc[p] # "idle"
        /\ qpc' = [qpc EXCEPT ![o] = "Lock1"]
        /\ UNCHANGED <<qmain, qobjs, qlimit, respMtx, metrics, traces, searchErr, qstop, racing, unlocked, qret>>
        /\ UNCHANGED <<cvars, fvars>>

\* respMtx.Lock() at the top of the callback.
LockMetrics ==
    \E o \in Objects :
        /\ qpc[o] = "Lock1" /\ respMtx = 0
        /\ respMtx' = o
        /\ qpc' = [qpc EXCEPT ![o] = "Metrics"]
        /\ UNCHANGED <<qmain, qobjs, qlimit, metrics, traces, searchErr, qstop, racing, unlocked, qret>>
        /\ UNCHANGED <<cvars, fvars>>

\* InspectedTraces++, InspectedBytes += len(obj), respMtx.Unlock().
UpdateMetrics ==
    \E o \in Objects :
        /\ qpc[o] = "Metrics"
        /\ metrics' = [InspectedTraces |-> metrics.InspectedTraces + 1,
                       InspectedBytes |-> metrics.InspectedBytes + o]
        /\ unlocked' = IF respMtx = o THEN unlocked ELSE unlocked \cup {"Metrics"}
        /\ respMtx' = 0
        /\ qpc' = [qpc EXCEPT ![o] = "Unmarshal"]
        /\ UNCHANGED <<qmain, qobjs, qlimit, traces, searchErr, qstop, racing, qret>>
        /\ UNCHANGED <<cvars, fvars>>

\* model.Unmarshal, then the scan of the trace and the filters of the
\* request: all on data local to the invocation.
Unmarshal ==
    \E o \in Objects :
        /\ qpc[o] = "Unmarshal"
        /\ IF qobjs[o] = "bad"
           THEN qpc' = [qpc EXCEPT ![o] = "SetErr"] /\ qstop' = qstop
           ELSE IF qobjs[o] = "miss"
           THEN qpc' = [qpc EXCEPT ![o] = "Done"] /\ qstop' = qstop
           ELSE qpc' = [qpc EXCEPT ![o] = "Lock2"] /\ qstop' = qstop
        /\ UNCHANGED <<qmain, qobjs, qlimit, respMtx, metrics, traces, searchErr, racing, unlocked, qret>>
        /\ UNCHANGED <<cvars, fvars>>

\* "searchErr = err": the store of an interface value, begun.  The mutex is
\* not taken; a store of another invocation may be under way.
SetErrBegin ==
    \E o \in Objects :
        /\ qpc[o] = "SetErr"
        /\ unlocked' = IF respMtx = o THEN unlocked ELSE unlocked \cup {"searchErr"}
        /\ racing' = IF Writing # {} THEN racing \cup Writing \cup {o} ELSE racing
        /\ qpc' = [qpc EXCEPT ![o] = "SetErr2"]
        /\ UNCHANGED <<qmain, qobjs, qlimit, respMtx, metrics, traces, searchErr, qstop, qret>>
        /\ UNCHANGED <<cvars, fvars>>

\* "searchErr = err" completed and "return true".  A store that overlapped
\* another one is a data race: searchErr ends as either error or as a mix
\* of the words of both.
SetErrEnd ==
    \E o \in Objects :
        /\ qpc[o] = "SetErr2"
        /\ IF o \in racing
           THEN searchErr' \in racing \cup {TornErr}
           ELSE searchErr' = o
        /\ qstop' = TRUE
        /\ qpc' = [qpc EXCEPT ![o] = "Done"]
        /\ UNCHANGED <<qmain, qobjs, qlimit, respMtx, metrics, traces, racing, unlocked, qret>>
        /\ UNCHANGED <<cvars, fvars>>

\* respMtx.Lock() before the append (released by the deferred Unlock).
LockAppend ==
    \E o \in Objects :
        /\ qpc[o] = "Lock2" /\ respMtx = 0
        /\ respMtx' = o
        /\ qpc' = [qpc EXCEPT ![o] = "Append"]
        /\ UNCHANGED <<qmain, qobjs, qlimit, metrics, traces, searchErr, qstop, racing, unlocked, qret>>
        /\ UNCHANGED <<cvars, fvars>>

\* resp.Traces = append(...), "return len(resp.Traces) >= limit" and the
\* deferred respMtx.Unlock().
AppendTrace ==
    \E o \in Objects :
        /\ qpc[o] = "Append"
        /\ traces' = Append(traces, o)
        /\ unlocked' = IF respMtx = o THEN unlocked ELSE unlocked \cup {"Traces"}
        /\ qstop' = (qstop \/ Len(traces') >= qlimit)
        /\ respMtx' = 0
        /\ qpc' = [qpc EXCEPT ![o] = "Done"]
        /\ UNCHANGED <<qmain, qobjs, qlimit, metrics, searchErr, racing, qret>>
        /\ UNCHANGED <<cvars, fvars>>

\* IterateObjects returns once the invocations it started have returned
\* and there is no object left to start, or one asked to stop; then
\* BackendSearch returns err, searchErr or resp.
ReturnSearch ==
    /\ qmain = "iterating"
    /\ \A o \in Objects : qpc[o] \in {"idle", "Done"}
    /\ qstop \/ \A o \in Objects : qpc[o] = "Done"
    /\ \E err \in {"nil", "IterateErr"} :
          qret' = IF err # "nil" THEN [resp |-> <<>>, err |-> err, of |-> 0]
                  ELSE IF searchErr = TornErr THEN [resp |-> <<>>, err |-> "TornErr", of |-> 0]
                  ELSE IF searchErr # NoErr
                  THEN [resp |-> <<>>, err |-> "UnmarshalErr", of |-> searchErr]
                  ELSE [resp |-> [Traces |-> traces, Metrics |-> metrics],
                        err |-> "nil", of |-> 0]
    /\ qmain' = "returned"
    /\ UNCHANGED <<qobjs, qlimit, qpc, respMtx, metrics, traces, searchErr, qstop, racing, unlocked>>
    /\ UNCHANGED <<cvars, fvars>>

NextQuerier ==
    \/ StartSearch
    \/ Dispatch
    \/ LockMetrics
    \/ UpdateMetrics
    \/ Unmarshal
    \/ SetErrBegin
    \/ SetErrEnd
    \/ LockAppend
    \/ AppendTrace
    \/ ReturnSearch

SpecQuerier == InitQuerier /\ [][NextQuerier]_vars

\* ------------------------------------------------------------------ claims
\* The encoder's input as the bytes the decoder is expected to return.
InputBytes == IF codec = "int32" THEN Flatten(xs) ELSE xs

\* C1: for every bit width (0..8 through EncodeLevels/DecodeLevels, 0..32
\* through EncodeInt32/DecodeInt32) and every sequence of values below 2^w,
\* decoding the encoder's output with the same width returns exactly the
\* input, with no error.
C1_RoundTrip ==
    (cpc = "done" /\ codec \in {"levels", "int32"}) => (cerr = "nil" /\ dstBuf = InputBytes)

\* A completed round trip of an int32 input at width 32 that starts with a
\* non-constant group (a bit-packed run) and ends with a tail.
C1_Witness ==
    /\ cpc = "done" /\ codec = "int32" /\ BitWidth = 32
    /\ Len(xs) > 16 /\ Len(xs) % 8 # 0 /\ xs[1] # xs[2]
    /\ cerr = "nil" /\ dstBuf = Flatten(xs)

\* Helpers of the lookup claims.
Terminal == fpc \in {"Done", "NotFound", "Failed"}

NoneNil == [trace |-> NoTrace, err |-> "nil"]

ProbeFailed == \E k \in 1..Len(probes) : probes[k].failed

IsBigBlock == Len(block) = 100

IdBelowMin == Len(block) > 0 /\ traceID < SeqMin(BlockRows(block))

IdAboveMax == Len(block) > 0 /\ traceID > SeqMax(BlockRows(block))

\* No trace id occupies two rows of the block.
UniqueIds(blk) == Cardinality(BlockKeys(blk)) = Len(BlockRows(blk))

\* Smallest k with 2^k >= n.
RECURSIVE CeilLog2From(_, _)
CeilLog2From(n, k) == IF Pow2(k) >= n THEN k ELSE CeilLog2From(n, k + 1)

CeilLog2(n) == CeilLog2From(n, 0)

\* C2: in a block of sorted, unique trace ids (every page reporting its
\* bounds, chunk bloom filters without false negatives), a lookup of a
\* stored id that meets no failure does not end as a miss, and the row
\* number the binary search returns is the row holding the id (the trace
\* returned being that row's), for every number of row groups and every
\* position of the id.
C2_FindsStoredRow ==
    (traceID \in BlockKeys(block) /\ UniqueIds(block) /\ AllBounded(block) /\ ~ProbeFailed)
        => /\ fpc # "NotFound"
           /\ fpc \in {"Materializing", "Done"}
                 => /\ rowMatch \in 0..(Len(BlockRows(block)) - 1)
                    /\ At(BlockRows(block), rowMatch) = traceID
           /\ fpc = "Done" => ret = [trace |-> traceID, err |-> "nil"]

\* C3: an id below the minimum or above the maximum of a block of N row
\* groups is not found, and at most ceil(log2 N) + 1 row groups are probed;
\* with N = 100 and an id below the minimum of row group 0 the first probe
\* is row group 49, the second is row group 24 and there are at most 7
\* probes (lookups that meet no failure).
C3_ProbeBound ==
    ((IdBelowMin \/ IdAboveMax) /\ ~ProbeFailed)
        => /\ fpc \notin {"Materializing", "Done"}
           /\ Len(probes) <= CeilLog2(Len(block)) + 1
           /\ (IsBigBlock /\ IdBelowMin)
                 => /\ Len(probes) >= 1 => probes[1].rg = 49
                    /\ Len(probes) >= 2 => probes[2].rg = 24
                    /\ Len(probes) <= 7

\* C4: when the block-level bloom filter tests negative, FindTraceByID
\* returns (nil, nil) and nothing else happens in that lookup: the file is
\* not opened and no row group is probed; the file is opened only after a
\* positive screen.
C4_NegativeScreenEnds ==
    /\ bloom = "neg" => (fpc = "NotFound" /\ ret = NoneNil /\ ~opened /\ probes = <<>>)
    /\ opened => bloom = "pos"

C4_Witness ==
    bloom = "neg" /\ fpc = "NotFound" /\ ret = NoneNil /\ ~opened /\ Len(block) > 0

\* C5: a failure to fetch or to parse the block-level bloom filter makes
\* FindTraceByID return (nil, err) with a non-nil error, never (nil, nil),
\* and no row group is probed after it.
C5_BloomFailureIsError ==
    bloom \in {"fetchErr", "parseErr"}
        => /\ fpc = "Failed"
           /\ ret.trace = NoTrace /\ ret.err # "nil"
           /\ ~opened /\ probes = <<>>

C5_Witness ==
    /\ bloom = "parseErr" /\ fpc = "Failed" /\ ret.err = "BloomCorrupt"
    /\ traceID \in BlockKeys(block)

\* C6: any failure during a lookup makes FindTraceByID return (nil, err)
\* and never (nil, nil) or a trace: an error of ReadPage, of ReadValues or
\* of the chunk-level bloom check met by a probe is returned to the caller.
C6_FailureIsReported ==
    (Terminal /\ ProbeFailed) => (ret.trace = NoTrace /\ ret.err # "nil")

\* Helpers of the decoder claims: the run whose header was read last.
HdrValid == hdr.n > 0

HdrOverCap == hdr.big \/ hdr.x \div 2 > 16 * 1024 * 1024

HdrCount == hdr.x \div 2

HdrIsBitpacked == hdr.x % 2 = 1

\* First position of the decoder's loop.
FirstRunAt == IF codec = "bool" THEN 4 ELSE 0

\* Bytes of input left after the header, and bytes the run's body takes in
\* the format: count * bit_width for a bit-packed run (the width of a
\* boolean page is 1), ceil(bit_width / 8) for a run-length run with at
\* least one value.
BodyAvail == end - (runAt + hdr.n)

BodyNeed ==
    IF HdrIsBitpacked
    THEN HdrCount * (IF codec = "bool" THEN 1 ELSE BitWidth)
    ELSE IF HdrCount = 0 THEN 0
    ELSE IF codec = "bool" THEN 1 ELSE ByteCount(BitWidth)

TruncatedRun == HdrValid /\ ~HdrOverCap /\ BodyNeed > BodyAvail

IsTruncationError(e) == e \in {"TruncatedHeader", "TruncatedBody", "TruncatedPrefix"}

\* C7: on every input and bit width, DecodeLevels, DecodeBoolean and
\* DecodeInt32 end by returning (no panic) without having read a byte at
\* an index outside [0, len(src)), and a bit-packed run whose payload
\* extends past the end of the input yields the TruncatedBody error.
C7_DecodersBoundSafe ==
    cpc = "done"
        => /\ cerr # "panic"
           /\ ~oob
           /\ (TruncatedRun /\ HdrIsBitpacked) => cerr = "TruncatedBody"

\* C8: a run header whose count exceeds 16 * 2^20 makes the decoder return
\* the CountTooLarge error with nothing of that run written: the output
\* keeps the length it had after the runs before it, which is 0 when the
\* header is the first run.
C8_CountTooLarge ==
    (cpc = "done" /\ HdrValid /\ HdrOverCap)
        => /\ cerr = "CountTooLarge"
           /\ Len(dstBuf) = validLen
           /\ runAt = FirstRunAt => Len(dstBuf) = 0

\* The first run of a levels input declares 2^24 + 1 bit-packed groups.
C8_Witness ==
    /\ cpc = "done" /\ codec = "levels" /\ BitWidth = 8
    /\ runAt = 0 /\ HdrValid /\ HdrOverCap /\ HdrIsBitpacked
    /\ srcLen >= 4
    /\ cerr = "CountTooLarge" /\ dstBuf = <<>>

\* C9: in each decoder a truncated run (a run-length run whose value bytes
\* are missing, a bit-packed run whose payload is cut short) returns a
\* truncation error, and the returned buffer has exactly the length
\* produced by the runs decoded before it.
C9_TruncatedRunIsError ==
    (cpc = "done" /\ TruncatedRun)
        => /\ IsTruncationError(cerr)
           /\ Len(dstBuf) = validLen

\* C10: the page EncodeBoolean produces for an empty input is the four
\* bytes 00 00 00 00 (length prefix 0 and an empty body), and DecodeBoolean
\* of that page returns an empty output with no error.
C10_EmptyBooleanPage ==
    (codec = "bool" /\ xs = <<>> /\ cpc \in {"decode", "runs", "done"})
        => /\ srcBuf = <<0, 0, 0, 0>>
           /\ cpc = "done" => (dstBuf = <<>> /\ cerr = "nil")

\* C11: the 4-byte little-endian prefix EncodeBoolean writes equals the
\* length of the body that follows it; and DecodeBoolean applied to a
\* proper prefix of a page with a non-empty body, of any length from the
\* bare 4 bytes of the prefix upwards, returns the TruncatedBody error and
\* not a successful result.
C11_BooleanFraming ==
    (codec = "bool" /\ cpc \in {"decode", "runs", "done"})
        => /\ srcBuf[3] = 0 /\ srcBuf[4] = 0
           /\ Uint32Low(srcBuf) = Len(srcBuf) - 4
           /\ (cpc = "done" /\ Len(srcBuf) > 4 /\ srcLen >= 4 /\ srcLen < Len(srcBuf))
                 => cerr = "TruncatedBody"

\* Helpers of the encoder claims: the encoder has returned its output
\* (srcBuf) for the input xs at a width above 0.
Encoded == cpc \in {"decode", "runs", "done"} /\ codec \in {"levels", "int32"} /\ BitWidth > 0

IsConstant(s) == \A k \in 1..Len(s) : s[k] = s[1]

\* The format's run-length run: header count << 1, then the value in
\* ceil(bit_width / 8) little-endian bytes.
ValueBytes(v) == IF codec = "int32" THEN SubSeq(v, 1, ByteCount(BitWidth)) ELSE <<v>>

RunLengthRun(count, v) == PutUvarint(2 * count) \o ValueBytes(v)

\* C12 as stated: a constant input of length n >= 8, a multiple of 8 or
\* not, at a width above 0 is encoded as exactly one run, a run-length run
\* with count n, in at most ceil(w/8) + 10 bytes.
C12_Original ==
    (Encoded /\ Len(xs) >= 8 /\ IsConstant(xs))
        => /\ srcBuf = RunLengthRun(Len(xs), xs[1])
           /\ Len(srcBuf) <= ByteCount(BitWidth) + 10

\* C12 as amended: a constant input of length n >= 8 at a width above 0 is
\* encoded as one run-length run with count 8 * floor(n / 8), followed,
\* when n is not a multiple of 8, by a second run-length run of the same
\* value with count n mod 8; the output has at most ceil(w/8) + 10 bytes
\* in the first case and at most 2 * ceil(w/8) + 11 in the second.
C12_ConstantInput ==
    (Encoded /\ Len(xs) >= 8 /\ IsConstant(xs))
        => LET n == Len(xs)
               rest == n % 8
           IN  /\ srcBuf = RunLengthRun(n - rest, xs[1])
                             \o (IF rest > 0 THEN RunLengthRun(rest, xs[1]) ELSE <<>>)
               /\ Len(srcBuf) <= (IF rest = 0 THEN ByteCount(BitWidth) + 10
                                  ELSE 2 * ByteCount(BitWidth) + 11)

\* A constant int32 input of 18 non-zero values at width 32 has been
\* encoded as a run of 16 and a run of 2.
C12_Witness ==
    /\ Encoded /\ codec = "int32" /\ BitWidth = 32
    /\ Len(xs) = 18 /\ IsConstant(xs) /\ xs[1] = <<255, 255, 255, 255>>
    /\ srcBuf = <<32, 255, 255, 255, 255, 4, 255, 255, 255, 255>>

\* C13 as stated: an empty input is encoded as a single zero-count
\* run-length header when the width is above 0 and as the empty byte
\* sequence when the width is 0; decoding the result returns the empty
\* sequence.
C13_Original ==
    (codec \in {"levels", "int32"} /\ xs = <<>> /\ cpc \in {"decode", "runs", "done"})
        => /\ srcBuf = (IF BitWidth > 0 THEN <<0>> ELSE <<>>)
           /\ cpc = "done" => (dstBuf = <<>> /\ cerr = "nil")

\* C13 as amended: an empty input is encoded as the empty byte sequence
\* when the width is above 0 and as a single zero-count run-length header
\* (the byte 00) when the width is 0; decoding the result returns the empty
\* sequence with no error.
C13_EmptyInput ==
    (codec \in {"levels", "int32"} /\ xs = <<>> /\ cpc \in {"decode", "runs", "done"})
        => /\ srcBuf = (IF BitWidth > 0 THEN <<>> ELSE <<0>>)
           /\ cpc = "done" => (dstBuf = <<>> /\ cerr = "nil")

\* The zero-count header of an empty levels input at width 0 has been
\* decoded as a run.
C13_Witness ==
    /\ codec = "levels" /\ BitWidth = 0 /\ xs = <<>> /\ cpc = "done"
    /\ srcBuf = <<0>> /\ pos = 1 /\ dstBuf = <<>> /\ cerr = "nil"

\* The encoder's output read as the format's runs, from byte i on; at is the
\* number of input values the runs before cover.  A run is [bp, count, at,
\* val]: its mode, the count of its header, the 0-based index of the first
\* value it covers and, for a run-length run, its value bytes.
RECURSIVE RunsFrom(_, _, _)
RunsFrom(buf, i, at) ==
    IF i >= Len(buf) THEN <<>>
    ELSE LET h == Uvarint(buf, i, Len(buf))
             bp == h.x % 2 = 1
             count == h.x \div 2
             body == IF bp THEN count * BitWidth ELSE ByteCount(BitWidth)
         IN  IF h.n <= 0 \/ i + h.n + body > Len(buf) THEN <<>>
             ELSE <<[bp |-> bp, count |-> count, at |-> at,
                     val |-> IF bp THEN <<>> ELSE Slice(buf, i + h.n, i + h.n + body)]>>
                  \o RunsFrom(buf, i + h.n + body, at + (IF bp THEN 8 * count ELSE count))

OutputRuns == RunsFrom(srcBuf, 0, 0)

\* The 8 input values from 0-based index at on.
GroupAt(at) == SubSeq(xs, at + 1, at + 8)

\* C14: in the level encoder and in the int32 encoder no bit-packed run
\* contains a constant group (8 equal values): a constant group that follows
\* non-constant groups, whatever its value, ends the bit-packed run and
\* starts a run-length run.
C14_NoConstantGroupPacked ==
    Encoded
        => \A k \in 1..Len(OutputRuns) :
              LET r == OutputRuns[k]
              IN  r.bp => \A g \in 0..(r.count - 1) : ~IsConstant(GroupAt(r.at + 8 * g))

\* Number of input values a run covers.
RunValues(r) == IF r.bp THEN 8 * r.count ELSE r.count

\* Index of the first value after the last full group of 8.
TailStart == 8 * (Len(xs) \div 8)

\* C15: for an input whose length is not a multiple of 8 (width above 0)
\* the values after the last full group are in no bit-packed run: they are
\* emitted as run-length runs, one per maximal block of equal consecutive
\* tail values, with that block's length as count and its value as value;
\* every bit-packed run covers whole groups of 8 before the tail, and the
\* runs together cover exactly the input.
C15_TailIsRunLength ==
    (Encoded /\ Len(xs) % 8 # 0)
        => LET runs == OutputRuns
               n == Len(xs)
           IN  /\ runs # <<>>
               /\ runs[Len(runs)].at + RunValues(runs[Len(runs)]) = n
               /\ \E k \in 1..Len(runs) : runs[k].at = TailStart
               /\ \A k \in 1..Len(runs) :
                     LET r == runs[k]
                     IN  /\ r.bp => r.at + 8 * r.count <= TailStart
                         /\ r.at >= TailStart
                               => /\ ~r.bp
                                  /\ r.count >= 1
                                  /\ r.at + r.count <= n
                                  /\ r.val = ValueBytes(xs[r.at + 1])
                                  /\ \A t \in (r.at + 1)..(r.at + r.count) : xs[t] = xs[r.at + 1]
                                  /\ r.at + r.count < n => xs[r.at + r.count + 1] # xs[r.at + 1]
                                  /\ r.at > TailStart => xs[r.at] # xs[r.at + 1]

\* A levels input of 18 values, a non-constant group first and two
\* different values in the tail, has been encoded with a bit-packed run
\* first and two run-length runs of one value last.
C15_Witness ==
    /\ Encoded /\ codec = "levels" /\ BitWidth = 8
    /\ Len(xs) = 18 /\ xs[1] # xs[2] /\ xs[17] # xs[18]
    /\ LET runs == OutputRuns
       IN  /\ Len(runs) >= 3
           /\ runs[1].bp
           /\ runs[Len(runs) - 1] = [bp |-> FALSE, count |-> 1, at |-> 16, val |-> <<xs[17]>>]
           /\ runs[Len(runs)] = [bp |-> FALSE, count |-> 1, at |-> 17, val |-> <<xs[18]>>]

\* Helpers of the probe claims: the row group a probe looked at, and the
\* bounds of a page of it (k 0-based).
ProbedRowGroup(p) == At(block, p.rg)

PageHasBounds(rg, k) == At(rg, k).ok

IdInPage(rg, k) == SeqMin(At(rg, k).vals) <= traceID /\ traceID <= SeqMax(At(rg, k).vals)

IdInChunk(rg) == MinValue(rg, 0) <= traceID /\ traceID <= MaxValue(rg, Len(rg) - 1)

\* C16: a probe reads the values of a page only if the page reports no
\* bounds or the id lies within the page's [min, max], every page before it
\* having been skipped on its bounds (max below the id) without its values
\* being read; a page whose min is above the id ends the probe unread; and
\* a row group whose chunk min/max excludes the id has no page read.
C16_ReadsOnlyCandidatePages ==
    \A n \in 1..Len(probes) :
        LET p == probes[n]
            rg == ProbedRowGroup(p)
        IN  /\ ~IdInChunk(rg) => p.read = {}
            /\ \A k \in p.read :
                  /\ ~PageHasBounds(rg, k) \/ IdInPage(rg, k)
                  /\ \A j \in 0..(k - 1) :
                        /\ j \notin p.read
                        /\ PageHasBounds(rg, j) /\ SeqMax(At(rg, j).vals) < traceID
            /\ \A k \in 0..(Len(rg) - 1) :
                  (PageHasBounds(rg, k) /\ ~IdInPage(rg, k)) => k \notin p.read

\* A probe skipped the first page of a row group on its bounds and read
\* the values of the second, where it found the id.
C16_Witness ==
    /\ Len(probes) >= 1
    /\ LET p == probes[Len(probes)]
           rg == ProbedRowGroup(p)
       IN  /\ Len(rg) = 2 /\ PageHasBounds(rg, 0) /\ PageHasBounds(rg, 1)
           /\ SeqMax(At(rg, 0).vals) < traceID
           /\ p.read = {1} /\ p.res >= 0

\* C17: binarySearch over [lo, hi] probes row group (lo + hi) / 2; on
\* SearchPrevious it continues on [lo, mid - 1]; on NotFound or SearchNext
\* on [mid + 1, hi]; a non-negative result is returned at once, with no
\* further probe; an empty range ends the lookup as a miss (nil, nil).
C17_BinarySearchSteps ==
    [][(fpc = "Searching")
          => IF lo > hi
             THEN probes' = probes /\ fpc' = "NotFound" /\ ret' = NoneNil
             ELSE LET mid == (lo + hi) \div 2
                      p == probes'[Len(probes')]
                  IN  /\ Len(probes') = Len(probes) + 1
                      /\ p.rg = mid
                      /\ p.res = SearchPrevious
                            => (lo' = lo /\ hi' = mid - 1 /\ fpc' = "Searching")
                      /\ p.res \in {NotFound, SearchNext}
                            => (lo' = mid + 1 /\ hi' = hi /\ fpc' = "Searching")
                      /\ p.res >= 0
                            => (rowMatch' = p.res /\ fpc' = "Materializing")
                      /\ p.res >= 0 \/ p.res \in {SearchPrevious, SearchNext, NotFound}
                      /\ \A k \in 1..Len(probes) : probes[k].res < 0]_vars

\* A search went left, then right, then returned the row its third probe
\* found.
C17_Witness ==
    /\ fpc = "Materializing" /\ Len(probes) = 3 /\ IsBigBlock
    /\ probes[1].res = SearchPrevious
    /\ probes[2].res \in {SearchNext, NotFound}
    /\ probes[2].rg < probes[1].rg /\ probes[3].rg > probes[2].rg
    /\ probes[3].res >= 0 /\ rowMatch = probes[3].res

\* Rows of the pages 0..k-1 of a row group.
RECURSIVE RowsBefore(_, _)
RowsBefore(rg, k) == IF k = 0 THEN 0 ELSE RowsBefore(rg, k - 1) + NumRows(At(rg, k - 1))

\* Zero-based position of the first value of a page equal to the id.
FirstMatch(vals) ==
    CHOOSE y \in 0..(Len(vals) - 1) :
        /\ At(vals, y) = traceID
        /\ \A u \in 0..(y - 1) : At(vals, u) # traceID

\* C18: startRowNum[0] = 0 and startRowNum[i+1] = startRowNum[i] +
\* numRows[i]; a non-negative result r of a probe of row group i is
\* startRowNum[i], plus the rows of the pages skipped because the id is
\* above their max, plus the position of the matching value in the page
\* scanned (across the batches read); the row r of the block holds the id.
C18_RowNumber ==
    /\ fpc \in {"Searching", "Materializing", "Done"}
          => /\ Len(startRowNum) = Len(block)
             /\ Len(block) > 0 => startRowNum[1] = 0
             /\ \A i \in 1..(Len(block) - 1) :
                   startRowNum[i + 1] = startRowNum[i] + RowGroupRows(block[i])
    /\ \A n \in 1..Len(probes) :
          LET p == probes[n]
              rg == ProbedRowGroup(p)
          IN  p.res >= 0
                => /\ Cardinality(p.read) = 1
                   /\ \A k \in p.read :
                         /\ traceID \in { At(rg, k).vals[t] : t \in 1..Len(At(rg, k).vals) }
                         /\ p.res = At(startRowNum, p.rg) + RowsBefore(rg, k)
                                      + FirstMatch(At(rg, k).vals)
                   /\ p.res < Len(BlockRows(block))
                   /\ At(BlockRows(block), p.res) = traceID

\* A probe of a row group other than the first skipped a page and found
\* the id at the second value of the next page.
C18_Witness ==
    /\ Len(probes) >= 1
    /\ LET p == probes[Len(probes)]
           rg == ProbedRowGroup(p)
       IN  /\ p.rg >= 1 /\ p.read = {1} /\ p.res >= 0
           /\ Len(At(rg, 1).vals) >= 2
           /\ At(rg, 1).vals[2] = traceID
           /\ p.res = At(startRowNum, p.rg) + NumRows(At(rg, 0)) + 1
           /\ At(startRowNum, p.rg) > 0

\* In the long block the id was found in the second batch of values.
C18_WitnessSecondBatch ==
    /\ block = LongBlock /\ Len(probes) = 1
    /\ probes[1].res = BatchSize + 1
    /\ traceID = 2 * (BatchSize + 2)

\* Global row numbers (0-based) of the rows holding the id.
RowsOfId ==
    LET rows == BlockRows(block)
    IN  { r \in 0..(Len(rows) - 1) : At(rows, r) = traceID }

\* C19: when the id occupies more than one row of a block sorted by trace
\* id (ties within a page, across pages or across a row-group boundary),
\* the row the lookup returns is the first one: the smallest global row
\* number whose key is the id.
C19_FirstMatchingRow ==
    (Cardinality(RowsOfId) > 1 /\ fpc \in {"Materializing", "Done"})
        => \A r \in RowsOfId : rowMatch <= r

\* C20: a probe returns NotFound from its loop over pages only when the
\* pages of the chunk are exhausted: every page of the chunk was either
\* skipped because the id is above its max, or had its values scanned
\* without a match (after a scanned page, a page without bounds included,
\* the probe goes on with the next page).
C20_NotFoundAfterAllPages ==
    \A n \in 1..Len(probes) :
        LET p == probes[n]
            rg == ProbedRowGroup(p)
        IN  (p.res = NotFound /\ ~p.failed /\ p.read # {})
              => \A k \in 0..(Len(rg) - 1) :
                    \/ k \in p.read
                          /\ traceID \notin { At(rg, k).vals[t] : t \in 1..Len(At(rg, k).vals) }
                    \/ k \notin p.read
                          /\ PageHasBounds(rg, k) /\ SeqMax(At(rg, k).vals) < traceID

\* C21: for every number N >= 0 of row groups and every outcome of the
\* probes, binarySearch(0, N - 1, id) terminates, probes row groups of
\* 0..N-1 only and each at most once, and returns either a negative value
\* or the non-negative result of a probe it made (its last); with N = 0 it
\* makes no probe and the lookup is a miss.
C21_SearchTerminates ==
    /\ [](/\ \A a \in 1..Len(probes) :
               /\ probes[a].rg \in 0..(Len(block) - 1)
               /\ \A b \in 1..Len(probes) : probes[a].rg = probes[b].rg => a = b
          /\ fpc = "Materializing"
                => /\ Len(probes) >= 1
                   /\ rowMatch >= 0
                   /\ rowMatch = probes[Len(probes)].res
          /\ fpc = "NotFound" => (rowMatch < 0 /\ ret = NoneNil)
          /\ fpc \in {"Searching", "Materializing", "NotFound"}
          /\ Len(block) = 0 => (probes = <<>> /\ fpc \in {"Searching", "NotFound"}))
    /\ <>(fpc # "Searching")

\* A search over 6 row groups made three probes, going left and right,
\* and returned the row its third probe gave.
C21_Witness ==
    /\ Len(block) = 6 /\ fpc = "Materializing" /\ Len(probes) = 3
    /\ probes[1].res = SearchPrevious /\ probes[2].res = NotFound
    /\ probes[3].res = 2 /\ rowMatch = 2 /\ probes[3].rg # 2

\* Objects whose invocation has recorded its unmarshal error in searchErr.
Recorded == { o \in Objects : qobjs[o] = "bad" /\ qpc[o] = "Done" }

\* C22: with the callback running concurrently for several objects, every
\* access of a callback to the state the invocations share (resp.Metrics,
\* resp.Traces, searchErr) is made while it holds respMtx, no two
\* invocations access the same shared variable at the same time, and an
\* unmarshal error recorded by an invocation is the error BackendSearch
\* returns (IterateObjects itself reporting none).
C22_SharedStateUnderMutex ==
    /\ unlocked = {}
    /\ racing = {}
    /\ Cardinality(Writing) <= 1
    /\ (qmain = "returned" /\ Recorded # {} /\ qret.err # "IterateErr")
          => (qret.err = "UnmarshalErr" /\ qret.of \in Recorded)

====
